---- MODULE Spec2Model ----
(***************************************************************************)
(* Model of get_collaborators.py: coauthor extraction (get_coauthors),     *)
(* affiliation resolution (get_affiliation, search_orcid_by_full_name),    *)
(* the multi-worker helper and the main workflow.                          *)
(*                                                                         *)
(* Python values.  A str is a sequence of text pieces.  Text the program   *)
(* looks inside (names, author strings, the strings it returns in place of *)
(* a list) is kept one character per piece; literal message text that is   *)
(* only ever concatenated is kept as one piece.  A value that may be a     *)
(* list or a str is tagged: [t |-> "list", v |-> ...] or [t |-> "str",...].*)
(* The remote services (Google Scholar through scholarly, the ORCID API)   *)
(* are the environment: their responses are inputs.                        *)
(***************************************************************************)
EXTENDS Integers, Sequences, FiniteSets, TLC

VARIABLES
    pc,             \* position of the run
    author_name,    \* args.author_name
    name_variations,\* list of declared variants (author_name appended)
    start_year,
    end_year,
    num_workers,
    coauthor_list,  \* value returned by get_coauthors (list or str)
    counter,        \* running counter of the output loop
    idx,            \* position of the output loop in coauthor_list
    outfile,        \* the output file: not opened, or its lines
    console,        \* messages printed by the argument check
    netcalls,       \* remote requests attempted so far
    scholar,        \* response of the publication index for the subject
    world,          \* response of the remote services per coauthor name
    arg,            \* arguments of the function under study
    remote,         \* remote responses given to the function under study
    out             \* what the function under study returned

vars == <<pc, author_name, name_variations, start_year, end_year, num_workers,
          coauthor_list, counter, idx, outfile, console, netcalls, scholar,
          world, arg, remote, out>>

\* ------------------------------------------------------------------ bounds
MaxPubs == 4        \* publications of a matched author
MaxCands == 2       \* profiles a coauthor search returns
MaxLookups == 2     \* registry responses told apart within one resolution

\* ------------------------------------------------------ Python str methods
PyList(v) == [t |-> "list", v |-> v]
PyStr(v) == [t |-> "str", v |-> v]

LowerChar(c) ==
    CASE c = "A" -> "a" [] c = "B" -> "b" [] c = "C" -> "c" [] c = "D" -> "d"
      [] OTHER -> c

\* str.lower()
lower(s) == [i \in 1..Len(s) |-> LowerChar(s[i])]

IsDot(c) == c = "."

\* str.replace('.', '')
replace_dot(s) == SelectSeq(s, LAMBDA c : ~IsDot(c))

RECURSIVE lstrip(_)
lstrip(s) == IF s # <<>> /\ Head(s) = " " THEN lstrip(Tail(s)) ELSE s

RECURSIVE rstrip(_)
rstrip(s) ==
    IF s # <<>> /\ s[Len(s)] = " " THEN rstrip(SubSeq(s, 1, Len(s) - 1)) ELSE s

\* str.strip()
strip(s) == rstrip(lstrip(s))

SepAt(s, sep, i) ==
    /\ i + Len(sep) - 1 <= Len(s)
    /\ SubSeq(s, i, i + Len(sep) - 1) = sep

RECURSIVE SplitFrom(_, _, _, _)
SplitFrom(s, sep, i, from) ==
    IF i > Len(s) THEN << SubSeq(s, from, Len(s)) >>
    ELSE IF SepAt(s, sep, i)
         THEN << SubSeq(s, from, i - 1) >>
              \o SplitFrom(s, sep, i + Len(sep), i + Len(sep))
         ELSE SplitFrom(s, sep, i + 1, from)

\* str.split(sep)
split(s, sep) == SplitFrom(s, sep, 1, 1)

\* x in list
InList(x, l) == \E i \in 1..Len(l) : l[i] = x

\* the separator of the raw author string
AND_SEP == <<" ", "a", "n", "d", " ">>

\* "An error occurred: " of the except clauses
ERR_PREFIX == <<"A", "n", " ", "e", "r", "r", "o", "r", " ", "o", "c", "c",
                "u", "r", "r", "e", "d", ":", " ">>

ErrorString(e) == PyStr(ERR_PREFIX \o e)

\* ------------------------------------------------------------ get_coauthors
\* range(5): the number of search results looked at
TOP_N == 5

\* bib['pub_year'] of a publication: a number, absent, or text that is no
\* number.  scholarly.fill(publication) is taken to leave the year as the
\* author's publication list gave it.
NumYear(n) == [k |-> "num", n |-> n]
NoYear == [k |-> "none", n |-> 0]
TextYear == [k |-> "text", n |-> 0]

\* int(pub.get('bib', {}).get('pub_year', 0)): the sort key; int() raises on text
SortKey(pub) == IF pub.pub_year.k = "num" THEN pub.pub_year.n ELSE 0
SortKeyRaises(pubs) == \E i \in 1..Len(pubs) : pubs[i].pub_year.k = "text"

\* insert p behind every element whose key is >= its own (stable, descending)
RECURSIVE InsertDesc(_, _)
InsertDesc(p, l) ==
    IF l = <<>> THEN <<p>>
    ELSE IF SortKey(Head(l)) >= SortKey(p)
         THEN <<Head(l)>> \o InsertDesc(p, Tail(l))
         ELSE <<p>> \o l

RECURSIVE SortedFrom(_, _, _)
SortedFrom(pubs, i, acc) ==
    IF i > Len(pubs) THEN acc
    ELSE SortedFrom(pubs, i + 1, InsertDesc(pubs[i], acc))

\* sorted(publications, key=..., reverse=True)
sorted_publications(pubs) == SortedFrom(pubs, 1, <<>>)

\* year == "Year not found"
YearNotFound(pub) == pub.pub_year.k = "none"

\* int(year) < start_year
BelowStart(pub, start) == pub.pub_year.n < start

\* the upper bound taken as exclusive
AboveEndExclusive(pub, end) == pub.pub_year.n >= end

\* int(year) > end_year
AboveEnd(pub, end) == pub.pub_year.n > end

\* aut.replace('.','').strip()
aut_name_of(aut) == strip(replace_dot(aut))

\* the test guarding coauthor_list.append(aut_name)
IsNewCoauthor(aut_name, list, name, variations) ==
    /\ ~InList(aut_name, list)
    /\ lower(aut_name) # lower(name)
    /\ ~InList(aut_name, variations)

RECURSIVE AddCoauthors(_, _, _, _, _)
AddCoauthors(toks, i, list, name, variations) ==
    IF i > Len(toks) THEN list
    ELSE LET aut_name == aut_name_of(toks[i])
         IN  AddCoauthors(toks, i + 1,
                 IF IsNewCoauthor(aut_name, list, name, variations)
                 THEN Append(list, aut_name) ELSE list,
                 name, variations)

\* the message of the ValueError int() raises
INT_ERROR == <<"i", "n", "v", "a", "l", "i", "d">>

\* The loop over sorted_publications.  st: list (coauthor_list), papers,
\* filled (publications fetched by this loop), nfill (publication fetches of
\* the whole call), failed/msg (an exception left the loop).
RECURSIVE ScanFrom(_, _, _, _, _, _, _)
ScanFrom(sorted, k, st, name, variations, window, resp) ==
    IF k > Len(sorted) THEN st
    ELSE LET pub == sorted[k]
             fetched == [st EXCEPT !.filled = @ + 1, !.nfill = @ + 1]
         IN  IF fetched.nfill = resp.pubfail
             THEN [fetched EXCEPT !.failed = TRUE, !.msg = resp.msg]
             ELSE IF YearNotFound(pub)
             THEN ScanFrom(sorted, k + 1, fetched, name, variations, window, resp)
             ELSE IF pub.pub_year.k = "text"
             THEN [fetched EXCEPT !.failed = TRUE, !.msg = INT_ERROR]
             ELSE IF BelowStart(pub, window[1])
             THEN fetched
             ELSE IF AboveEnd(pub, window[2])
             THEN ScanFrom(sorted, k + 1, fetched, name, variations, window, resp)
             ELSE ScanFrom(sorted, k + 1,
                      [fetched EXCEPT
                          !.papers = Append(@, pub),
                          !.list = AddCoauthors(split(pub.author, AND_SEP), 1, @,
                                                name, variations)],
                      name, variations, window, resp)

\* The loop "for i in range(5)" over the search results.  st: list, calls
\* (remote requests), nfill, scans (one record per matched author), failed/msg.
RECURSIVE CandidatesFrom(_, _, _, _, _, _)
CandidatesFrom(i, st, name, variations, window, resp) ==
    IF i > TOP_N \/ i > Len(resp.cands) THEN st
    ELSE LET author == resp.cands[i]
             c1 == [st EXCEPT !.calls = @ + 1]
         IN  IF author.fill = "raise"
             THEN [c1 EXCEPT !.failed = TRUE, !.msg = resp.msg]
             ELSE IF lower(author.name) # lower(name)
             THEN CandidatesFrom(i + 1, c1, name, variations, window, resp)
             ELSE IF SortKeyRaises(author.publications)
             THEN [c1 EXCEPT !.failed = TRUE, !.msg = INT_ERROR]
             ELSE LET sorted == sorted_publications(author.publications)
                      s == ScanFrom(sorted, 1,
                               [list |-> c1.list, papers |-> <<>>, filled |-> 0,
                                nfill |-> c1.nfill, failed |-> FALSE, msg |-> <<>>],
                               name, variations, window, resp)
                      c2 == [c1 EXCEPT
                                !.list = s.list,
                                !.nfill = s.nfill,
                                !.calls = @ + s.filled,
                                !.failed = s.failed,
                                !.msg = s.msg,
                                !.scans = Append(@, [sorted |-> sorted,
                                                     filled |-> s.filled,
                                                     papers |-> s.papers,
                                                     completed |-> ~s.failed])]
                  IN  IF s.failed THEN c2
                      ELSE CandidatesFrom(i + 1, c2, name, variations, window, resp)

\* get_coauthors(name, name_variations, start_year, end_year): ret is the value
\* returned, calls the remote requests made, scans the publication scans done.
get_coauthors(name, variations, start, end, resp) ==
    LET st0 == [list |-> <<>>, calls |-> 1, nfill |-> 0, scans |-> <<>>,
                failed |-> FALSE, msg |-> <<>>]
        st == IF resp.search = "raise"
              THEN [st0 EXCEPT !.failed = TRUE, !.msg = resp.msg]
              ELSE CandidatesFrom(1, st0, name, variations, <<start, end>>, resp)
    IN  [ret |-> IF st.failed THEN ErrorString(st.msg) ELSE PyList(st.list),
         calls |-> st.calls,
         scans |-> st.scans]

\* ------------------------------------------------ search_orcid_by_full_name
NoneValue == [t |-> "none", v |-> <<>>]

\* str(response.status_code)
StatusText(status) ==
    CASE status = 200 -> <<"2", "0", "0">>
      [] status = 404 -> <<"4", "0", "4">>
      [] OTHER -> <<"5", "0", "0">>

\* the records that carry an 'orcid-identifier' path, each dereferenced by
\* fetch_detailed_profile (which keeps the id whatever the second GET answers)
RECURSIVE people_of(_)
people_of(records) ==
    IF records = <<>> THEN <<>>
    ELSE IF Head(records) # <<>>
         THEN <<[orcid |-> Head(records)]>> \o people_of(Tail(records))
         ELSE people_of(Tail(records))

\* search_orcid_by_full_name for a response r that did not raise: None, the
\* list of people, or the "Error: ..." string
search_orcid_by_full_name(r) ==
    IF r.status = 200
    THEN IF r.records = <<>> THEN NoneValue ELSE PyList(people_of(r.records))
    ELSE PyStr(<<"E", "r", "r", "o", "r", ":", " ">> \o StatusText(r.status)
               \o <<" ", "-", " ">> \o r.text)

\* requests of one lookup: the search and one profile GET per identifier
LookupCalls(r) ==
    1 + (IF r.kind = "ok" /\ r.status = 200 THEN Len(people_of(r.records)) ELSE 0)

\* truth value of results
Truthy(x) == x.t # "none" /\ x.v # <<>>

\* --------------------------------------------------------- get_affiliation
SEARCH_URL == <<"https://orcid.org/orcid-search/search?searchQuery=">>
FOUND_ONE == <<"Found ORCID: ">>
FOUND_MANY == <<"Found multiple ORCID(s): ">>
NOT_ON_SCHOLAR == <<"Affiliation not found on Google Scholar; ">>
NOT_FOUND == <<"Affiliation not found on Google Scholar nor ORCID (">>
UNBOUND_INFO == <<"local variable 'info' referenced before assignment">>

first_name_of(name) == split(name, <<" ">>)[1]
last_name_of(name) == LET full_name == split(name, <<" ">>) IN full_name[Len(full_name)]

\* f"...searchQuery={first_name}%20{last_name}"
SearchUrl(name) == SEARCH_URL \o first_name_of(name) \o <<"%20">> \o last_name_of(name)

RECURSIVE JoinUrls(_)
JoinUrls(people) ==
    IF people = <<>> THEN <<>>
    ELSE <<"https://orcid.org/">> \o Head(people).orcid
         \o (IF Tail(people) = <<>> THEN <<>> ELSE <<"; ">> \o JoinUrls(Tail(people)))

\* the text both branches build from a truthy results
FoundInfo(results, name) ==
    IF Len(results.v) = 1
    THEN FOUND_ONE \o JoinUrls(results.v)
    ELSE FOUND_MANY \o SearchUrl(name)

\* the k-th registry response of this call
OrcidResponse(resp, k) == resp.orcid[IF k <= Len(resp.orcid) THEN k ELSE Len(resp.orcid)]

\* The loop "for i in range(5)" of get_affiliation.  st: affiliations, info
\* (<<>> while unbound) and bound, calls, nlookup, lookups (what each registry
\* lookup returned), exc ("none", "remote", "unbound"), msg.
RECURSIVE AffiliationsFrom(_, _, _, _)
AffiliationsFrom(i, st, name, resp) ==
    IF i > TOP_N \/ i > Len(resp.cands) THEN st
    ELSE LET author == resp.cands[i]
             c1 == [st EXCEPT !.calls = @ + 1]
         IN  IF author.fill = "raise"
             THEN [c1 EXCEPT !.exc = "remote", !.msg = resp.msg]
             ELSE IF lower(author.name) # lower(name)
             THEN AffiliationsFrom(i + 1, c1, name, resp)
             ELSE LET r == OrcidResponse(resp, c1.nlookup + 1)
                      c2 == [c1 EXCEPT !.calls = @ + LookupCalls(r), !.nlookup = @ + 1]
                  IN  IF r.kind = "raise"
                      THEN [c2 EXCEPT !.exc = "remote", !.msg = resp.msg]
                      ELSE LET results == search_orcid_by_full_name(r)
                               c3 == [c2 EXCEPT
                                        !.lookups = Append(@, results),
                                        !.bound = @ \/ Truthy(results),
                                        !.info = IF Truthy(results)
                                                 THEN FoundInfo(results, name) ELSE @]
                           IN  IF ~c3.bound
                               THEN [c3 EXCEPT !.exc = "unbound", !.msg = UNBOUND_INFO]
                               ELSE AffiliationsFrom(i + 1,
                                        [c3 EXCEPT !.affiliations =
                                            Append(@, author.affiliation \o <<", ">> \o c3.info)],
                                        name, resp)

\* the branch "if not affiliations"
Fallback(st, name, resp) ==
    LET r == OrcidResponse(resp, st.nlookup + 1)
        c2 == [st EXCEPT !.calls = @ + LookupCalls(r), !.nlookup = @ + 1]
    IN  IF r.kind = "raise"
        THEN [c2 EXCEPT !.exc = "remote", !.msg = resp.msg]
        ELSE LET results == search_orcid_by_full_name(r)
                 c3 == [c2 EXCEPT !.lookups = Append(@, results)]
             IN  IF ~Truthy(results)
                 THEN [c3 EXCEPT !.affiliations =
                          << NOT_FOUND \o SearchUrl(name) \o <<")">> >>]
                 ELSE [c3 EXCEPT !.affiliations =
                          << NOT_ON_SCHOLAR \o FoundInfo(results, name) >>]

\* a handler that names the remote failures only
CatchesRemoteOnly(exc) == exc = "remote"

\* "except Exception": the exceptions the handler of get_affiliation catches
Catches(exc) == exc \in {"remote", "unbound"}

\* get_affiliation(name): ret is the value returned (meaningless when raised),
\* raised whether an exception left the function.
get_affiliation(name, resp) ==
    LET st0 == [affiliations |-> <<>>, info |-> <<>>, bound |-> FALSE, calls |-> 1,
                nlookup |-> 0, lookups |-> <<>>, exc |-> "none", msg |-> <<>>]
        st1 == IF resp.search = "raise"
               THEN [st0 EXCEPT !.exc = "remote", !.msg = resp.msg]
               ELSE AffiliationsFrom(1, st0, name, resp)
        st == IF st1.exc = "none" /\ st1.affiliations = <<>>
              THEN Fallback(st1, name, resp) ELSE st1
    IN  [ret |-> IF st.exc = "none" THEN PyList(st.affiliations)
                 ELSE ErrorString(st.msg),
         raised |-> st.exc # "none" /\ ~Catches(st.exc),
         matched |-> st1.nlookup > 0,
         exc |-> st.exc,
         msg |-> st.msg,
         lookups |-> st.lookups,
         calls |-> st.calls]

\* -------------------------------------------------------- run_mutiprocesing
\* chunks[-1].extend(...) is reached when the length is no multiple of
\* num_workers; a str slice has no extend.  Process(...) objects are built and
\* never started; the name results read next is bound nowhere.
run_mutiprocesing(collaborator_list, workers) ==
    LET n == Len(collaborator_list.v)
    IN  [raised |-> TRUE,
         exc |-> IF n % workers # 0 /\ collaborator_list.t = "str"
                 THEN "AttributeError" ELSE "NameError",
         started |-> 0,
         results |-> <<>>]

\* ------------------------------------------------------------- main workflow
NEED_NAME == <<"Need an author name (-a \"John Doe\")">>
NotOpened == [opened |-> FALSE, lines |-> <<>>]

\* name_variations after the -t option is split and author_name appended
variations_of(variations, name) ==
    (IF variations # <<>> THEN split(variations, <<";">>) ELSE <<>>) \o <<name>>

\* one element of "for name in coauthor_list": a list yields its entries, a
\* str its characters
ItemAt(value, i) == IF value.t = "list" THEN value.v[i] ELSE <<value.v[i]>>

\* affiliations[0]
FirstOf(value) == IF value.t = "list" THEN value.v[1] ELSE <<value.v[1]>>

\* f"{name}; {affiliations[0]}\n", the newline ending the line
LineOf(name, aff) == name \o <<"; ">> \o aff

\* the loop without its test of the name
AnyName(name) == TRUE

\* "if name:"
NonEmptyName(name) == name # <<>>

\* the remote responses for one coauthor name
DefaultResp ==
    [search |-> "ok", cands |-> <<>>,
     orcid |-> <<[kind |-> "ok", status |-> 200, records |-> <<>>, text |-> <<>>]>>,
     msg |-> <<>>]
WorldAt(w, name) == IF name \in DOMAIN w THEN w[name] ELSE DefaultResp

\* if author_name == "": print(...); quit      (quit is named, not called)
CheckAuthorName ==
    /\ pc = "args"
    /\ console' = IF author_name = <<>> THEN Append(console, NEED_NAME) ELSE console
    /\ pc' = "search"
    /\ UNCHANGED <<author_name, name_variations, start_year, end_year, num_workers,
                   coauthor_list, counter, idx, outfile, netcalls, scholar, world,
                   arg, remote, out>>

\* coauthor_list = get_coauthors(author_name, name_variations, ...)
CallGetCoauthors ==
    /\ pc = "search"
    /\ LET r == get_coauthors(author_name, name_variations, start_year, end_year,
                              scholar)
       IN  /\ coauthor_list' = r.ret
           /\ netcalls' = netcalls + r.calls
    /\ pc' = "count"
    /\ UNCHANGED <<author_name, name_variations, start_year, end_year, num_workers,
                   counter, idx, outfile, console, scholar, world, arg, remote, out>>

\* num_workers > 1: results = run_mutiprocesing(coauthor_list, num_workers)
RunMultiprocessing ==
    /\ pc = "count"
    /\ num_workers > 1
    /\ LET r == run_mutiprocesing(coauthor_list, num_workers)
       IN  IF r.raised
           THEN /\ pc' = "crashed"
                /\ UNCHANGED outfile
           ELSE /\ pc' = "done"
                /\ outfile' = [opened |-> TRUE, lines |-> r.results]
    /\ UNCHANGED <<author_name, name_variations, start_year, end_year, num_workers,
                   coauthor_list, counter, idx, console, netcalls, scholar, world,
                   arg, remote, out>>

\* else: counter = 1; with open(outputfile, "w") as f
OpenOutput ==
    /\ pc = "count"
    /\ ~(num_workers > 1)
    /\ outfile' = [opened |-> TRUE, lines |-> <<>>]
    /\ counter' = 1
    /\ idx' = 1
    /\ pc' = "loop"
    /\ UNCHANGED <<author_name, name_variations, start_year, end_year, num_workers,
                   coauthor_list, console, netcalls, scholar, world, arg, remote, out>>

\* one pass of "for name in coauthor_list"
WriteNext ==
    /\ pc = "loop"
    /\ idx <= Len(coauthor_list.v)
    /\ LET name == ItemAt(coauthor_list, idx)
           r == get_affiliation(name, WorldAt(world, name))
       IN  IF ~NonEmptyName(name)
           THEN /\ pc' = "loop"
                /\ UNCHANGED <<outfile, counter, netcalls>>
           ELSE IF r.raised
           THEN /\ pc' = "crashed"
                /\ netcalls' = netcalls + r.calls
                /\ UNCHANGED <<outfile, counter>>
           ELSE /\ pc' = "loop"
                /\ netcalls' = netcalls + r.calls
                /\ outfile' = IF r.ret.v # <<>>
                              THEN [outfile EXCEPT
                                      !.lines = Append(@, LineOf(name, FirstOf(r.ret)))]
                              ELSE outfile
                /\ counter' = counter + 1
    /\ idx' = idx + 1
    /\ UNCHANGED <<author_name, name_variations, start_year, end_year, num_workers,
                   coauthor_list, console, scholar, world, arg, remote, out>>

\* the loop is over: the file is closed and the elapsed time printed
Finish ==
    /\ pc = "loop"
    /\ idx > Len(coauthor_list.v)
    /\ pc' = "done"
    /\ UNCHANGED <<author_name, name_variations, start_year, end_year, num_workers,
                   coauthor_list, counter, idx, outfile, console, netcalls, scholar,
                   world, arg, remote, out>>

\* ------------------------------------------------------------------- inputs
\* start_year = 2022, end_year = 2024
DEFAULT_START == 2022
DEFAULT_END == 2024

SeqsUpTo(S, n) == UNION {[1..k -> S] : k \in 0..n}

nAB == <<"A", " ", "B">>
nCD == <<"C", " ", "D">>
nAC == <<"A", " ", "C">>
nD == <<"D">>
REMOTE_MSG == <<"5", "0", "3">>

Pub(year, author) == [pub_year |-> year, author |-> author]
p2025 == Pub(NumYear(2025), nAB \o AND_SEP \o nD)
p2024 == Pub(NumYear(2024), <<"A", ".", " ", "B">> \o AND_SEP \o nCD)
p2023 == Pub(NumYear(2023),
             <<"a", " ", "b">> \o AND_SEP \o <<"C", ".", " ", "D", " ">> \o AND_SEP \o nAC)
p2022 == Pub(NumYear(2022), nCD \o AND_SEP)
p2021 == Pub(NumYear(2021), <<"B">>)
p2020 == Pub(NumYear(2020), <<"B", " ", "C">>)
pNoYear == Pub(NoYear, <<"C">>)
pTextYear == Pub(TextYear, <<"C">>)
Pubs == {p2025, p2024, p2023, p2022, p2021, p2020, pNoYear, pTextYear}

Profile(name, pubs) == [fill |-> "ok", name |-> name, publications |-> pubs]
Stranger == Profile(<<"B", " ", "A">>, <<p2023>>)
Unfilled == [fill |-> "raise", name |-> <<>>, publications |-> <<>>]
ScholarResp(search, cands, pubfail) ==
    [search |-> search, cands |-> cands, pubfail |-> pubfail, msg |-> REMOTE_MSG]

\* what the publication index may answer to the search for the subject
CoauthorResponses ==
    {ScholarResp("ok", <<Profile(<<"a", " ", "B">>, pubs)>>, 0) : pubs \in SeqsUpTo(Pubs, MaxPubs)}
    \cup {ScholarResp("raise", <<>>, 0),
          ScholarResp("ok", <<>>, 0),
          ScholarResp("ok", <<Unfilled>>, 0),
          ScholarResp("ok", <<Stranger>>, 0),
          ScholarResp("ok", <<Stranger, Profile(nAB, <<p2023, p2021>>)>>, 0),
          ScholarResp("ok", <<Profile(nAB, <<p2024>>), Profile(nAB, <<p2023, p2022>>)>>, 0),
          ScholarResp("ok", <<Stranger, Stranger, Stranger, Stranger, Stranger,
                              Profile(nAB, <<p2023>>)>>, 0),
          ScholarResp("ok", <<Profile(nAB, <<p2024, p2023>>)>>, 1),
          ScholarResp("ok", <<Profile(nAB, <<p2024, p2023>>)>>, 2)}

\* the -t option
VariationArgs == {<<>>, <<"a", " ", "c">>, nAC \o <<";">> \o nD}

\* profiles the publication index may return for a coauthor name
AFFILIATION_DEFAULT == <<"Affiliation not found">>
AuthorOf(name, aff) == [fill |-> "ok", name |-> name, affiliation |-> aff]
CoauthorProfiles ==
    {AuthorOf(<<"c", " ", "d">>, <<"University of C">>),
     AuthorOf(nD, AFFILIATION_DEFAULT),
     AuthorOf(<<"B", " ", "A">>, <<"University of B">>),
     [fill |-> "raise", name |-> <<>>, affiliation |-> <<>>]}

\* what the registry may answer to one search
Orcid(kind, status, records) ==
    [kind |-> kind, status |-> status, records |-> records, text |-> <<"o", "o", "p", "s">>]
id1 == <<"0000-0001">>
id2 == <<"0000-0002">>
OrcidResponses ==
    {Orcid("ok", 200, <<>>), Orcid("ok", 200, <<id1>>), Orcid("ok", 200, <<id1, id2>>),
     Orcid("ok", 200, << <<>> >>), Orcid("ok", 500, <<>>), Orcid("raise", 0, <<>>)}

AffilResp(search, cands, orcid) ==
    [search |-> search, cands |-> cands, orcid |-> orcid, msg |-> REMOTE_MSG]
AffiliationResponses ==
    {AffilResp("ok", c, o) : c \in SeqsUpTo(CoauthorProfiles, MaxCands),
                             o \in SeqsUpTo(OrcidResponses, MaxLookups) \ {<<>>}}
    \cup {AffilResp("raise", <<>>, <<Orcid("ok", 200, <<>>)>>)}

\* The remote services as the main workflow meets them.  A run fixes what
\* they answer for each name of Universe; any other name (the empty name, a
\* single character) finds no profile and no registry record (DefaultResp).
MainScholar ==
    {ScholarResp("raise", <<>>, 0),
     ScholarResp("ok", <<Stranger>>, 0),
     ScholarResp("ok", <<Profile(nAB, <<p2024, p2023>>)>>, 0),
     ScholarResp("ok", <<Profile(nAB, <<p2025, p2022, p2021>>)>>, 0),
     ScholarResp("ok", <<Profile(nAB, <<p2023, pTextYear>>)>>, 0)}
Universe == {nCD, nAC}
MainAffiliation ==
    {AffilResp("ok", <<AuthorOf(nCD, <<"University of C">>), AuthorOf(nAC, <<"College A">>)>>,
               <<Orcid("ok", 200, <<id1>>)>>),
     AffilResp("ok", <<AuthorOf(nCD, <<"University of C">>), AuthorOf(nAC, <<"College A">>)>>,
               <<Orcid("ok", 200, <<>>)>>),
     AffilResp("ok", <<>>, <<Orcid("ok", 200, <<>>)>>),
     AffilResp("raise", <<>>, <<Orcid("ok", 200, <<>>)>>)}

\* ------------------------------------------------------------ specifications
\* the run, from the end of argument parsing
Init ==
    /\ pc = "args"
    /\ author_name \in {nAB, <<>>}
    /\ \E t \in {<<>>, <<"a", " ", "c">>} : name_variations = variations_of(t, author_name)
    /\ start_year = DEFAULT_START
    /\ end_year = DEFAULT_END
    /\ num_workers \in {1, 2}
    /\ coauthor_list = PyList(<<>>)
    /\ counter = 0
    /\ idx = 0
    /\ outfile = NotOpened
    /\ console = <<>>
    /\ netcalls = 0
    /\ scholar \in MainScholar
    /\ world \in [Universe -> MainAffiliation]
    /\ arg = <<>>
    /\ remote = <<>>
    /\ out = <<>>

Next ==
    \/ CheckAuthorName
    \/ CallGetCoauthors
    \/ RunMultiprocessing
    \/ OpenOutput
    \/ WriteNext
    \/ Finish

Spec == Init /\ [][Next]_vars

\* what a specification of one function leaves alone
Idle ==
    /\ author_name = <<>>
    /\ name_variations = <<>>
    /\ start_year = DEFAULT_START
    /\ end_year = DEFAULT_END
    /\ num_workers = 1
    /\ coauthor_list = PyList(<<>>)
    /\ counter = 0
    /\ idx = 0
    /\ outfile = NotOpened
    /\ console = <<>>
    /\ netcalls = 0
    /\ scholar = <<>>
    /\ world = <<>>

UnchangedRun ==
    UNCHANGED <<author_name, name_variations, start_year, end_year, num_workers,
                coauthor_list, counter, idx, outfile, console, netcalls, scholar, world>>

\* get_coauthors alone, on every input of the bounded sets
InitCoauthors ==
    /\ Idle
    /\ pc = "call"
    /\ \E t \in VariationArgs :
          arg = [name |-> nAB, name_variations |-> variations_of(t, nAB),
                 start_year |-> DEFAULT_START, end_year |-> DEFAULT_END]
    /\ remote \in CoauthorResponses
    /\ out = <<>>

ApplyGetCoauthors ==
    /\ pc = "call"
    /\ out' = get_coauthors(arg.name, arg.name_variations, arg.start_year,
                            arg.end_year, remote)
    /\ pc' = "returned"
    /\ UNCHANGED <<arg, remote>>
    /\ UnchangedRun

SpecCoauthors == InitCoauthors /\ [][ApplyGetCoauthors]_vars

\* get_affiliation alone, on every input of the bounded sets
InitAffiliation ==
    /\ Idle
    /\ pc = "call"
    /\ arg \in {nCD, nD}
    /\ remote \in AffiliationResponses
    /\ out = <<>>

ApplyGetAffiliation ==
    /\ pc = "call"
    /\ out' = get_affiliation(arg, remote)
    /\ pc' = "returned"
    /\ UNCHANGED <<arg, remote>>
    /\ UnchangedRun

SpecAffiliation == InitAffiliation /\ [][ApplyGetAffiliation]_vars

\* ------------------------------------------------------------------- claims
Returned == pc = "returned"
TheList == out.ret.v

\* the normalized names of a publication's author string
TokensOf(pub) ==
    LET toks == split(pub.author, AND_SEP)
    IN  {aut_name_of(toks[i]) : i \in 1..Len(toks)}

\* C1: the list get_coauthors returns holds no entry equal, case-insensitively,
\* to the subject name or to a declared variant, and no entry twice.
C1_NoSubjectNoVariantNoDuplicate ==
    (Returned /\ out.ret.t = "list") =>
        /\ \A i \in 1..Len(TheList) :
              /\ lower(TheList[i]) # lower(arg.name)
              /\ \A j \in 1..Len(arg.name_variations) :
                    lower(TheList[i]) # lower(arg.name_variations[j])
        /\ \A i, j \in 1..Len(TheList) : i # j => TheList[i] # TheList[j]

\* C2: with an empty author name the run attempts no remote request.
C2_EmptyNameNoNetworkCall ==
    author_name = <<>> => netcalls = 0

\* year inside the inclusive window
InsideWindow(pub, start, end) ==
    pub.pub_year.k = "num" /\ start <= pub.pub_year.n /\ pub.pub_year.n <= end

\* position of the first publication whose year is below start (Len + 1: none)
CutOf(sorted, start) ==
    CHOOSE k \in 1..(Len(sorted) + 1) :
        /\ k = Len(sorted) + 1
           \/ (sorted[k].pub_year.k = "num" /\ sorted[k].pub_year.n < start)
        /\ \A j \in 1..(k - 1) :
              ~(sorted[j].pub_year.k = "num" /\ sorted[j].pub_year.n < start)

Descending(sorted) ==
    \A i \in 1..(Len(sorted) - 1) : SortKey(sorted[i]) >= SortKey(sorted[i + 1])

\* C3: over publications in descending year order, exactly the publications
\* before the first one below start_year whose year lies in [start_year,
\* end_year] are retained; the scan fetches that first one and nothing after
\* it; every coauthor returned comes from a retained publication.
C3_WindowAndEarlyCutoff ==
    Returned =>
        /\ \A s \in 1..Len(out.scans) :
              LET scan == out.scans[s]
                  cut == CutOf(scan.sorted, arg.start_year)
              IN  /\ Descending(scan.sorted)
                  /\ scan.completed =>
                        /\ scan.papers =
                              SelectSeq(SubSeq(scan.sorted, 1, cut - 1),
                                        LAMBDA p : InsideWindow(p, arg.start_year,
                                                                arg.end_year))
                        /\ scan.filled = IF cut <= Len(scan.sorted) THEN cut
                                         ELSE Len(scan.sorted)
        /\ out.ret.t = "list" =>
              \A i \in 1..Len(TheList) :
                 \E s \in 1..Len(out.scans) :
                    \E k \in 1..Len(out.scans[s].papers) :
                       TheList[i] \in TokensOf(out.scans[s].papers[k])

YearsOf(pubs) == [i \in 1..Len(pubs) |-> pubs[i].pub_year.n]

\* years [2025, 2023, 2021, 2020]: only 2023 is retained, 2020 is never fetched
C3_Witness ==
    /\ Returned
    /\ Len(out.scans) = 1
    /\ YearsOf(out.scans[1].sorted) = <<2025, 2023, 2021, 2020>>
    /\ out.scans[1].papers = <<p2023>>
    /\ out.scans[1].filled = 3
    /\ out.ret = PyList(<<nCD, nAC>>)

\* a registry lookup that returned zero records
ZeroRecords(results) == results.t = "none"

\* C4: when a registry lookup of get_affiliation returned zero records, the
\* value returned is a list holding the "not found" message with the search
\* URL of the first and last name, never an error string.
C4_ZeroRecordsNotFoundMessage ==
    (Returned /\ \E k \in 1..Len(out.lookups) : ZeroRecords(out.lookups[k])) =>
        /\ out.ret.t = "list"
        /\ \E i \in 1..Len(out.ret.v) :
              out.ret.v[i] = NOT_FOUND \o SearchUrl(arg) \o <<")">>

HasPiece(text, piece) == \E i \in 1..Len(text) : text[i] = piece

\* C5: each affiliation text carries a profile URL exactly when its lookup
\* returned one record, the "Found multiple ORCID(s)" search URL exactly when
\* it returned more than one, and neither when it returned an error string.
C5_OneRecordUrlManyRecordsSearch ==
    (Returned /\ out.ret.t = "list") =>
        \A i \in 1..Len(out.ret.v) :
           LET results == out.lookups[i]
               records == IF results.t = "list" THEN Len(results.v) ELSE 0
           IN  /\ HasPiece(out.ret.v[i], "Found ORCID: ") <=> records = 1
               /\ HasPiece(out.ret.v[i], "Found multiple ORCID(s): ") <=> records > 1

\* C6: get_affiliation never raises; an exception inside it comes back as the
\* string "An error occurred: " followed by the exception's message.
C6_NeverRaises ==
    Returned =>
        /\ ~out.raised
        /\ out.exc # "none" => out.ret = PyStr(ERR_PREFIX \o out.msg)
        /\ out.exc = "none" => out.ret.t = "list"

\* the unbound info of the matched branch came back as a string
C6_Witness ==
    /\ Returned
    /\ out.exc = "unbound"
    /\ out.ret.t = "str"
    /\ SubSeq(out.ret.v, 1, Len(ERR_PREFIX)) = ERR_PREFIX

\* the non-empty names among the first n entries
NamesDone(n) == SelectSeq(SubSeq(coauthor_list.v, 1, n), LAMBDA x : x # <<>>)

\* C7: with one worker and a list of coauthors, the file holds one line per
\* non-empty name handled so far, in order, each "<name>; " followed by the
\* first affiliation whenever resolution returned a list; a resolution that
\* failed leaves the later names their lines, and the loop runs to the end.
C7_OneLinePerName ==
    (num_workers <= 1 /\ coauthor_list.t = "list") =>
        /\ pc # "crashed"
        /\ pc = "done" => idx = Len(coauthor_list.v) + 1
        /\ pc \in {"loop", "done"} =>
              LET names == NamesDone(idx - 1)
              IN  /\ outfile.opened
                  /\ Len(outfile.lines) = Len(names)
                  /\ counter = Len(names) + 1
                  /\ \A k \in 1..Len(names) :
                        LET r == get_affiliation(names[k], WorldAt(world, names[k]))
                            line == outfile.lines[k]
                        IN  /\ Len(line) > Len(names[k])
                            /\ SubSeq(line, 1, Len(names[k]) + 1) = names[k] \o <<"; ">>
                            /\ r.ret.t = "list" =>
                                  line = names[k] \o <<"; ">> \o r.ret.v[1]

\* the first coauthor's resolution failed, the second still has its line
C7_Witness ==
    /\ pc = "done"
    /\ num_workers = 1
    /\ coauthor_list = PyList(<<nCD, nAC>>)
    /\ get_affiliation(nCD, WorldAt(world, nCD)).ret.t = "str"
    /\ get_affiliation(nAC, WorldAt(world, nAC)).ret.t = "list"
    /\ Len(outfile.lines) = 2
    /\ outfile.lines[2] = nAC \o <<"; ", "College A", ", ", "Found ORCID: ",
                                   "https://orcid.org/", "0000-0001">>

\* what the one-worker loop writes for a coauthor value, from entry i on
RECURSIVE SingleWorkerLines(_, _, _)
SingleWorkerLines(value, i, w) ==
    IF i > Len(value.v) THEN <<>>
    ELSE LET name == IF value.t = "list" THEN value.v[i] ELSE <<value.v[i]>>
             r == get_affiliation(name, WorldAt(w, name))
             aff == IF r.ret.t = "list" THEN r.ret.v[1] ELSE <<r.ret.v[1]>>
         IN  (IF name # <<>> THEN <<name \o <<"; ">> \o aff>> ELSE <<>>)
             \o SingleWorkerLines(value, i + 1, w)

\* C8: whatever num_workers is, the run ends with the file the one-worker
\* loop writes for the same coauthors and the same remote responses.
C8_WorkersNoEffect ==
    pc \in {"done", "crashed"} =>
        /\ outfile.opened
        /\ outfile.lines = SingleWorkerLines(coauthor_list, 1, world)

\* the publication index answered every request
NoRemoteFailure ==
    /\ remote.search = "ok"
    /\ remote.pubfail = 0
    /\ \A i \in 1..Len(remote.cands) : remote.cands[i].fill = "ok"

\* C9: a publication whose year is missing or no number is skipped: the call
\* still returns a list, and every publication of a matched author with a year
\* inside the window contributes its coauthors.
C9_BadYearSkipped ==
    (Returned /\ NoRemoteFailure) =>
        /\ out.ret.t = "list"
        /\ \A i \in 1..Len(remote.cands) :
              (i <= TOP_N /\ lower(remote.cands[i].name) = lower(arg.name)) =>
                 \A k \in 1..Len(remote.cands[i].publications) :
                    LET pub == remote.cands[i].publications[k]
                    IN  InsideWindow(pub, arg.start_year, arg.end_year) =>
                           \A a \in TokensOf(pub) :
                              \/ InList(a, TheList)
                              \/ lower(a) = lower(arg.name)
                              \/ InList(a, arg.name_variations)

\* C10: when get_coauthors returned its error string, the run resolves no
\* affiliation and writes no record.
C10_ErrorStringNotProcessed ==
    coauthor_list.t = "str" =>
        /\ counter <= 1
        /\ outfile.lines = <<>>
====
